---- MODULE Spec2Model ----
(***************************************************************************)
(* Turn-taking orchestration of HebrewVoiceApp (src/hebrew_voice_app.py):  *)
(* the session state machine, the capture gate, the background tasks       *)
(* (capture, recognition, translation, synthesis), continuous mode and the *)
(* spelling matcher.                                                       *)
(*                                                                         *)
(* The main thread (event handlers and the tick of run()) and every        *)
(* background thread interleave.  A handler of the main thread is one      *)
(* step.  A background thread is cut at its blocking calls (device open    *)
(* and read, file write, network call, playback wait, pygame.time.wait):   *)
(* the code between two blocking calls is one step.  The success branch of *)
(* _handle_translation is cut once more, between its stores to the shown   *)
(* text and to the original, which other threads can interleave with.      *)
(*                                                                         *)
(* Texts are sequences of symbols: a symbol is one character or one whole  *)
(* phrase of the UI catalogue.  <<>> is the empty string (and None where   *)
(* the code only tests truthiness).                                        *)
(***************************************************************************)
EXTENDS Integers, Sequences, FiniteSets, Bags, TLC

\* ---------------------------------------------------------------- bounds
\* Largest number of background threads alive at once: a user event or a
\* tick that would start one more is not taken beyond it.
MaxThreads == 2
\* Chunks read by one capture run before the duration ceiling ends it
\* (max_chunks of _record_audio, scaled down).
MaxChunks == 2

\* ------------------------------------------------------------ enumerations
MODE_SELECT == "mode_select"
READY == "ready"
RECORDING == "recording"
PROCESSING == "processing"
SHOWING == "showing"
AppState == {MODE_SELECT, READY, RECORDING, PROCESSING, SHOWING}

FREE_SPEECH == "free_speech"
SPELLING == "spelling"
TRANSLATION == "translation"
NoMode == "None"
GameMode == {FREE_SPEECH, SPELLING, TRANSLATION}

LANGUAGES == {"hebrew", "english"}
Difficulties == {"easy", "medium", "hard"}
NoDifficulty == "None"
NoWord == <<>>
Empty == <<>>

\* ------------------------------------------------------------ UI catalogue
\* The entries of UI_TEXT the orchestration uses (Hebrew phrases are
\* transliterated).
UI_TEXT ==
  [hebrew |->
     [TRANSLATING |-> <<"metargem...">>,
      TRANSLATION_ERROR |-> <<"shgiat tirgum">>,
      LISTENING |-> <<"makshiv...">>,
      NOT_UNDERSTOOD |-> <<"lo hevanti">>,
      NETWORK_ERROR |-> <<"shgiat reshet">>,
      ERROR |-> <<"shgia">>,
      THINKING |-> <<"choshev...">>,
      SAY_SOMETHING |-> <<"emor mashehu be-ivrit!">>,
      TRANSLATE_TO |-> <<"emor mashehu be-ivrit le-tirgum">>],
   english |->
     [TRANSLATING |-> <<"Translating...">>,
      TRANSLATION_ERROR |-> <<"Translation error">>,
      LISTENING |-> <<"Listening...">>,
      NOT_UNDERSTOOD |-> <<"Didn't understand">>,
      NETWORK_ERROR |-> <<"Network error">>,
      ERROR |-> <<"Error">>,
      THINKING |-> <<"Thinking...">>,
      SAY_SOMETHING |-> <<"Say something in English!">>,
      TRANSLATE_TO |-> <<"Say something to translate">>]]

get_text(lang, key) == UI_TEXT[lang][key]

\* The phrases written inline in next_word, repeat_word and check_spelling.
ListenText(lang) ==
  <<"[ear] ">> \o (IF lang = "hebrew" THEN get_text(lang, "LISTENING") ELSE <<"Listen...">>)
YourTurnText(lang) ==
  IF lang = "hebrew" THEN <<"achshav ata! ot achar ot">>
  ELSE <<"Your turn! Spell it letter by letter">>
SuccessText(lang) ==
  <<"[party] ">> \o (IF lang = "hebrew" THEN <<"metsuyan! mila nechona!">> ELSE <<"Excellent! Correct!">>)
AffirmationText(lang) == IF lang = "hebrew" THEN <<"metsuyan">> ELSE <<"Excellent">>
ContinueText(lang) ==
  IF lang = "hebrew" THEN <<"nachon! [v] hamshech...">> ELSE <<"Correct! [v] Continue...">>
TryAgainText(lang) ==
  <<"[x] ">> \o (IF lang = "hebrew" THEN <<"nase shuv">> ELSE <<"Try again">>)

\* ------------------------------------------------------------- characters
\* Hebrew letters and vowel marks are named; Latin letters are themselves.
NiqqudMarks == {"qamats", "segol", "tsere", "dagesh"}
strip_niqqud(text) == SelectSeq(text, LAMBDA c : c \notin NiqqudMarks)

\* HEBREW_LETTER_NAMES, in the order of the dictionary, for the letters of
\* the word pools: alef -> alef-qamats lamed-segol final-pe, bet -> bet-tsere-
\* dagesh yod tav.
HEBREW_LETTER_NAMES ==
  << [letter |-> "alef", name |-> <<"alef", "qamats", "lamed", "segol", "pe_sofit">>],
     [letter |-> "bet", name |-> <<"bet", "tsere", "dagesh", "yod", "tav">>] >>

Whitespace == {" "}
LowerChar(c) ==
  CASE c = "A" -> "a"
    [] c = "D" -> "d"
    [] OTHER -> c
Lower(text) == [k \in 1..Len(text) |-> LowerChar(text[k])]
IsAlpha(c) == c \in {"a", "d", "A", "D", "alef", "bet", "lamed", "pe_sofit", "yod", "tav"}

RECURSIVE LStrip(_)
LStrip(text) ==
  IF text # <<>> /\ Head(text) \in Whitespace THEN LStrip(Tail(text)) ELSE text
RECURSIVE RStrip(_)
RStrip(text) ==
  IF text # <<>> /\ text[Len(text)] \in Whitespace
  THEN RStrip(SubSeq(text, 1, Len(text) - 1)) ELSE text
Strip(text) == RStrip(LStrip(text))

\* ------------------------------------------------------------ environment
\* words.json (not part of the sources): the word pools per language and
\* tier, as _load_words_data returns them.  A pool may be empty.
SmallWords ==
  [hebrew |-> [easy |-> << <<"alef", "bet">> >>, medium |-> <<>>, hard |-> <<>>],
   english |-> [easy |-> << <<"a", "d">> >>, medium |-> <<>>, hard |-> <<>>]]
RichWords ==
  [hebrew |-> [easy |-> << <<"alef", "bet", "alef">> >>, medium |-> <<>>, hard |-> <<>>],
   english |-> [easy |-> << <<"d", "a", "d">>, <<"A", "d">> >>, medium |-> <<>>,
                hard |-> << <<"a", "d", "d", "a">> >>]]

\* What the recognizer can return as text for each language (Empty: an empty
\* transcript): the texts of a session, and the texts of a spelling round.
Utterances(lang) ==
  IF lang = "hebrew" THEN { <<"alef">>, <<"bet", "tsere", "dagesh", "yod", "tav">> }
  ELSE { <<"a">>, <<"d">> }
SpellingUtterances(lang) ==
  IF lang = "hebrew"
  THEN { <<"alef">>, <<"bet">>, <<"bet", "tsere", "dagesh", "yod", "tav">>,
         <<"alef", "lamed", "pe_sofit">>, <<"alef", "bet">> }
  ELSE { <<"d">>, <<"a">>, <<" ", "A">>, <<"a", "d">>, <<"D">> }

\* Outcomes of recognizer.recognize_google.
RecognizeErrors == {"UnknownValueError", "RequestError", "Exception"}

\* translate_text: the translator's answer for a text, or None (<<>>).
OtherCode(lang) == IF lang = "hebrew" THEN "en" ELSE "he"
Translation(text, to_lang) == <<"[->" , to_lang, "]">> \o text

VARIABLES
  state,                      \* self.state
  current_lang,               \* self.current_lang
  current_mode,               \* self.current_mode
  recognized_text,            \* self.recognized_text
  last_recognized_text,       \* self.last_recognized_text
  translation_original,       \* self.translation_original
  is_recording_active,        \* self.is_recording_active
  stop_recording_flag,        \* self.stop_recording_flag
  continuous_mode,            \* self.continuous_mode
  tts_playing,                \* self.tts_playing
  pending_restart_listening,  \* self.pending_restart_listening
  spelling_game,              \* self.spelling_game
  words_data,                 \* self.words_data
  HAS_GTTS,                   \* module constant set at import
  threads                     \* bag of the live background threads

vars == <<state, current_lang, current_mode, recognized_text, last_recognized_text,
          translation_original, is_recording_active, stop_recording_flag,
          continuous_mode, tts_playing, pending_restart_listening, spelling_game,
          words_data, HAS_GTTS, threads>>

\* A background thread: its target function, its position, and the locals
\* its later steps read (n: frames read; text: spoken_text or translation;
\* restart: restart_after; to: to_lang).  The text a synthesis thread speaks
\* is read by no later step and is not kept.
Thread(kind, pc, n, text, restart, to) ==
  [kind |-> kind, pc |-> pc, n |-> n, text |-> text, restart |-> restart, to |-> to]

Live == BagToSet(threads)
NumThreads == BagCardinality(threads)
Spawned(t) == threads (+) SetToBag({t})
Ended(t) == threads (-) SetToBag({t})
Moved(t, u) == (threads (-) SetToBag({t})) (+) SetToBag({u})

NewSpellingGame ==
  [difficulty |-> NoDifficulty, current_word |-> NoWord, target_word |-> NoWord,
   user_spelling |-> <<>>, word_list |-> <<>>, score |-> 0]

Init ==
  /\ state = MODE_SELECT
  /\ current_lang = "hebrew"
  /\ current_mode = NoMode
  /\ recognized_text = Empty
  /\ last_recognized_text = Empty
  /\ translation_original = Empty
  /\ is_recording_active = FALSE
  /\ stop_recording_flag = FALSE
  /\ continuous_mode = FALSE
  /\ tts_playing = FALSE
  /\ pending_restart_listening = FALSE
  /\ spelling_game = NewSpellingGame
  /\ words_data = SmallWords
  /\ HAS_GTTS \in BOOLEAN
  /\ threads = EmptyBag

\* ------------------------------------------------------------ capture gate
\* _record_audio: the statements before the thread starts.
RecordThread == Thread("record", "open", 0, Empty, FALSE, "")
record_audio_sets ==
  /\ state' = RECORDING
  /\ is_recording_active' = TRUE
  /\ stop_recording_flag' = FALSE

stop_recording_always == TRUE
\* _stop_recording
stop_recording_value == IF is_recording_active THEN TRUE ELSE stop_recording_flag

\* -------------------------------------------------------- spelling matcher
SetMin(S) == CHOOSE x \in S : \A y \in S : x <= y

NoFilledPositions(user_spelling) == {}
\* filled_positions of check_spelling (positions are 0-based, as in the code).
FilledPositions(user_spelling) ==
  {user_spelling[k].position : k \in 1..Len(user_spelling)}

FirstMatching(target_letters, filled_positions, ch) ==
  LET hits == {i \in 0..(Len(target_letters) - 1) : target_letters[i + 1] = ch}
  IN IF hits = {} THEN -1 ELSE SetMin(hits)
\* "for i in range(len(target_letters)): if i not in filled_positions and
\* target_letters[i] == ch": the first such i, or -1.
FirstUnfilled(target_letters, filled_positions, ch) ==
  LET hits == {i \in 0..(Len(target_letters) - 1) :
                 i \notin filled_positions /\ target_letters[i + 1] = ch}
  IN IF hits = {} THEN -1 ELSE SetMin(hits)

\* The first entry of HEBREW_LETTER_NAMES the utterance names (0: none).
HebrewLetterSpoken(normalized) ==
  LET hits == {k \in 1..Len(HEBREW_LETTER_NAMES) :
                 \/ normalized = Lower(strip_niqqud(HEBREW_LETTER_NAMES[k].name))
                 \/ normalized = Lower(HEBREW_LETTER_NAMES[k].name)
                 \/ normalized = <<HEBREW_LETTER_NAMES[k].letter>>}
  IN IF hits = {} THEN 0 ELSE SetMin(hits)

SpellingMatchFirstLetter(spoken_text, lang, target_word, user_spelling) ==
  LET normalized == Lower(Strip(spoken_text))
      target_letters == Lower(target_word)
      filled_positions == FilledPositions(user_spelling)
      k == HebrewLetterSpoken(normalized)
  IN IF lang = "hebrew"
     THEN IF k = 0 THEN [index |-> -1, char |-> ""]
          ELSE [index |-> FirstUnfilled(target_letters, filled_positions,
                                        LowerChar(HEBREW_LETTER_NAMES[k].letter)),
                char |-> HEBREW_LETTER_NAMES[k].letter]
     ELSE IF Len(normalized) >= 1 /\ IsAlpha(normalized[1])
          THEN [index |-> FirstUnfilled(target_letters, filled_positions, normalized[1]),
                char |-> normalized[1]]
          ELSE [index |-> -1, char |-> ""]
\* The matching part of check_spelling: the slot the utterance fills and the
\* entry appended to user_spelling (index -1: no slot).
SpellingMatch(spoken_text, lang, target_word, user_spelling) ==
  LET normalized == Lower(Strip(spoken_text))
      target_letters == Lower(target_word)
      filled_positions == FilledPositions(user_spelling)
      k == HebrewLetterSpoken(normalized)
  IN IF lang = "hebrew"
     THEN IF k = 0 THEN [index |-> -1, char |-> ""]
          ELSE [index |-> FirstUnfilled(target_letters, filled_positions,
                                        LowerChar(HEBREW_LETTER_NAMES[k].letter)),
                char |-> HEBREW_LETTER_NAMES[k].letter]
     ELSE IF Len(normalized) = 1 /\ IsAlpha(normalized[1])
          THEN [index |-> FirstUnfilled(target_letters, filled_positions, normalized[1]),
                char |-> normalized[1]]
          ELSE [index |-> -1, char |-> ""]

WordCompleteEarly(user_spelling, target_word) ==
  Len(user_spelling) + 1 = Len(Lower(target_word))
\* "len(user_spelling) == len(target_letters)" after the append.
WordComplete(user_spelling, target_word) == Len(user_spelling) = Len(Lower(target_word))

SuccessFlowThread == Thread("success_flow", "start", 0, Empty, FALSE, "")

check_spelling_mismatch_stays(spoken_text, base) ==
  LET m == SpellingMatch(spoken_text, current_lang, spelling_game.target_word,
                         spelling_game.user_spelling)
      filled == Append(spelling_game.user_spelling,
                       [char |-> m.char, correct |-> TRUE, position |-> m.index])
  IN IF spelling_game.target_word = NoWord
     THEN /\ recognized_text' = spoken_text
          /\ last_recognized_text' = spoken_text
          /\ UNCHANGED <<state, spelling_game>>
          /\ threads' = base
     ELSE IF m.index >= 0
     THEN /\ spelling_game' = [spelling_game EXCEPT !.user_spelling = filled]
          /\ IF WordComplete(filled, spelling_game.target_word)
             THEN /\ recognized_text' = SuccessText(current_lang)
                  /\ last_recognized_text' = AffirmationText(current_lang)
                  /\ state' = SHOWING
                  /\ threads' = base (+) SetToBag({SuccessFlowThread})
             ELSE /\ recognized_text' = ContinueText(current_lang)
                  /\ last_recognized_text' = spoken_text
                  /\ state' = READY
                  /\ threads' = base
     ELSE /\ recognized_text' = TryAgainText(current_lang)
          /\ last_recognized_text' = spoken_text
          /\ UNCHANGED <<state, spelling_game>>
          /\ threads' = base
\* check_spelling(spoken_text), called by process() right after it stored the
\* recognized text in recognized_text and last_recognized_text; base is the
\* bag of threads once the calling thread has ended.
check_spelling(spoken_text, base) ==
  LET m == SpellingMatch(spoken_text, current_lang, spelling_game.target_word,
                         spelling_game.user_spelling)
      filled == Append(spelling_game.user_spelling,
                       [char |-> m.char, correct |-> TRUE, position |-> m.index])
  IN IF spelling_game.target_word = NoWord
     THEN /\ recognized_text' = spoken_text
          /\ last_recognized_text' = spoken_text
          /\ UNCHANGED <<state, spelling_game>>
          /\ threads' = base
     ELSE IF m.index >= 0
     THEN /\ spelling_game' = [spelling_game EXCEPT !.user_spelling = filled]
          /\ IF WordComplete(filled, spelling_game.target_word)
             THEN /\ recognized_text' = SuccessText(current_lang)
                  /\ last_recognized_text' = AffirmationText(current_lang)
                  /\ state' = SHOWING
                  /\ threads' = base (+) SetToBag({SuccessFlowThread})
             ELSE /\ recognized_text' = ContinueText(current_lang)
                  /\ last_recognized_text' = spoken_text
                  /\ state' = READY
                  /\ threads' = base
     ELSE /\ recognized_text' = TryAgainText(current_lang)
          /\ last_recognized_text' = spoken_text
          /\ state' = READY
          /\ UNCHANGED spelling_game
          /\ threads' = base

\* next_word(), called by the Next button, select_difficulty and success_flow;
\* base as above.
SpeakWordThread == Thread("speak_word", "start", 0, Empty, FALSE, "")
next_word_keeps_progress(game, base) ==
  IF game.word_list = <<>>
  THEN /\ spelling_game' = game
       /\ threads' = base
       /\ UNCHANGED <<recognized_text, state>>
  ELSE \E k \in 1..Len(game.word_list) :
         LET word == game.word_list[k]
         IN /\ spelling_game' = [game EXCEPT !.target_word = word, !.current_word = word]
            /\ recognized_text' = ListenText(current_lang)
            /\ state' = SHOWING
            /\ threads' = base (+) SetToBag({SpeakWordThread})
next_word(game, base) ==
  IF game.word_list = <<>>
  THEN /\ spelling_game' = game
       /\ threads' = base
       /\ UNCHANGED <<recognized_text, state>>
  ELSE \E k \in 1..Len(game.word_list) :
         LET word == game.word_list[k]
         IN /\ spelling_game' = [game EXCEPT !.target_word = word, !.current_word = word,
                                             !.user_spelling = <<>>]
            /\ recognized_text' = ListenText(current_lang)
            /\ state' = SHOWING
            /\ threads' = base (+) SetToBag({SpeakWordThread})

\* -------------------------------------------------------------- main thread
\* _handle_touch in MODE_SELECT (and K_SPACE): a mode button.
SelectMode(mode) ==
  /\ state = MODE_SELECT
  /\ current_mode' = mode
  /\ state' = READY
  /\ UNCHANGED <<current_lang, recognized_text, last_recognized_text, translation_original,
                 is_recording_active, stop_recording_flag, continuous_mode, tts_playing,
                 pending_restart_listening, spelling_game, HAS_GTTS, words_data, threads>>

BackButtonKeepsOriginal ==
  /\ state # MODE_SELECT
  /\ stop_recording_flag' = stop_recording_value
  /\ continuous_mode' = FALSE
  /\ pending_restart_listening' = FALSE
  /\ state' = MODE_SELECT
  /\ current_mode' = NoMode
  /\ recognized_text' = Empty
  /\ last_recognized_text' = Empty
  /\ spelling_game' = NewSpellingGame
  /\ UNCHANGED <<current_lang, translation_original, is_recording_active, tts_playing,
                 HAS_GTTS, words_data, threads>>
\* _handle_touch: the back button.
BackButton ==
  /\ state # MODE_SELECT
  /\ stop_recording_flag' = stop_recording_value
  /\ continuous_mode' = FALSE
  /\ pending_restart_listening' = FALSE
  /\ state' = MODE_SELECT
  /\ current_mode' = NoMode
  /\ recognized_text' = Empty
  /\ last_recognized_text' = Empty
  /\ translation_original' = Empty
  /\ spelling_game' = NewSpellingGame
  /\ UNCHANGED <<current_lang, is_recording_active, tts_playing, HAS_GTTS, words_data, threads>>

ToggleContinuousKeepsCapture(cap) ==
  /\ state # MODE_SELECT
  /\ continuous_mode' = ~continuous_mode
  /\ IF ~continuous_mode /\ state \in {READY, SHOWING}
     THEN /\ NumThreads < cap
          /\ record_audio_sets
          /\ threads' = Spawned(RecordThread)
     ELSE UNCHANGED <<state, is_recording_active, stop_recording_flag, threads>>
  /\ UNCHANGED <<current_lang, current_mode, recognized_text, last_recognized_text,
                 translation_original, tts_playing, pending_restart_listening,
                 spelling_game, HAS_GTTS, words_data>>
ToggleContinuousAnyState(cap) ==
  /\ state # MODE_SELECT
  /\ continuous_mode' = ~continuous_mode
  /\ IF ~continuous_mode
     THEN /\ NumThreads < MaxThreads
          /\ record_audio_sets
          /\ threads' = Spawned(RecordThread)
     ELSE /\ stop_recording_flag' =
               (IF continuous_mode /\ is_recording_active THEN TRUE ELSE stop_recording_flag)
          /\ UNCHANGED <<state, is_recording_active, threads>>
  /\ UNCHANGED <<current_lang, current_mode, recognized_text, last_recognized_text,
                 translation_original, tts_playing, pending_restart_listening,
                 spelling_game, HAS_GTTS, words_data>>
\* _toggle_continuous_mode (the continuous button, K_c).
ToggleContinuous(cap) ==
  /\ state # MODE_SELECT
  /\ continuous_mode' = ~continuous_mode
  /\ IF ~continuous_mode /\ state \in {READY, SHOWING}
     THEN /\ NumThreads < cap
          /\ record_audio_sets
          /\ threads' = Spawned(RecordThread)
     ELSE /\ stop_recording_flag' =
               (IF continuous_mode /\ is_recording_active THEN TRUE ELSE stop_recording_flag)
          /\ UNCHANGED <<state, is_recording_active, threads>>
  /\ UNCHANGED <<current_lang, current_mode, recognized_text, last_recognized_text,
                 translation_original, tts_playing, pending_restart_listening,
                 spelling_game, HAS_GTTS, words_data>>

\* set_language (the language buttons, K_h, K_e).
SetLanguage(lang) ==
  /\ lang \in LANGUAGES
  /\ current_lang' = lang
  /\ IF state # MODE_SELECT
     THEN state' = READY /\ recognized_text' = Empty
     ELSE UNCHANGED <<state, recognized_text>>
  /\ UNCHANGED <<current_mode, last_recognized_text, translation_original,
                 is_recording_active, stop_recording_flag, continuous_mode, tts_playing,
                 pending_restart_listening, spelling_game, HAS_GTTS, words_data, threads>>

\* speak_text(text, restart_after), up to the start of its thread; base as above.
SpeakThread(restart_after) == Thread("speak", "start", 0, Empty, restart_after, "")
speak_text(text, restart_after, base) ==
  LET said == IF text # Empty THEN text ELSE last_recognized_text
  IN IF ~HAS_GTTS \/ said = Empty
     THEN /\ pending_restart_listening' =
               (IF restart_after /\ continuous_mode THEN TRUE ELSE pending_restart_listening)
          /\ threads' = base
     ELSE /\ UNCHANGED pending_restart_listening
          /\ threads' = base (+) SetToBag({SpeakThread(restart_after)})

\* speak_in_language(text, lang_code, restart_after), up to the start of its thread.
speak_in_language(text, lang_code, restart_after, base) ==
  IF ~HAS_GTTS \/ text = Empty
  THEN /\ pending_restart_listening' =
            (IF restart_after /\ continuous_mode THEN TRUE ELSE pending_restart_listening)
       /\ threads' = base
  ELSE /\ UNCHANGED pending_restart_listening
       /\ threads' = base (+) SetToBag({SpeakThread(restart_after)})

\* _handle_touch: the speaker button.
SpeakerButton(cap) ==
  /\ state = SHOWING
  /\ last_recognized_text # Empty
  /\ HAS_GTTS => NumThreads < cap
  /\ speak_text(Empty, FALSE, threads)
  /\ UNCHANGED <<state, current_lang, current_mode, recognized_text, last_recognized_text,
                 translation_original, is_recording_active, stop_recording_flag,
                 continuous_mode, tts_playing, spelling_game, HAS_GTTS, words_data>>

\* _handle_touch: a difficulty button, and select_difficulty.
SelectDifficultyStoresEmpty(difficulty, cap) ==
  /\ state # MODE_SELECT
  /\ current_mode = SPELLING
  /\ spelling_game.difficulty = NoDifficulty
  /\ LET word_list == words_data[current_lang][difficulty]
     IN /\ NumThreads < cap
        /\ next_word([spelling_game EXCEPT !.difficulty = difficulty,
                                           !.word_list = word_list], threads)
  /\ UNCHANGED <<current_lang, current_mode, last_recognized_text, translation_original,
                 is_recording_active, stop_recording_flag, continuous_mode, tts_playing,
                 pending_restart_listening, HAS_GTTS, words_data>>
SelectDifficulty(difficulty, cap) ==
  /\ state # MODE_SELECT
  /\ current_mode = SPELLING
  /\ spelling_game.difficulty = NoDifficulty
  /\ LET word_list == words_data[current_lang][difficulty]
     IN IF word_list = <<>>
        THEN UNCHANGED <<spelling_game, recognized_text, state, threads>>
        ELSE /\ NumThreads < cap
             /\ next_word([spelling_game EXCEPT !.difficulty = difficulty,
                                                !.word_list = word_list], threads)
  /\ UNCHANGED <<current_lang, current_mode, last_recognized_text, translation_original,
                 is_recording_active, stop_recording_flag, continuous_mode, tts_playing,
                 pending_restart_listening, HAS_GTTS, words_data>>

\* _handle_touch: the Next button.
NextButton(cap) ==
  /\ state # MODE_SELECT
  /\ current_mode = SPELLING
  /\ spelling_game.difficulty # NoDifficulty
  /\ NumThreads < cap
  /\ next_word(spelling_game, threads)
  /\ UNCHANGED <<current_lang, current_mode, last_recognized_text, translation_original,
                 is_recording_active, stop_recording_flag, continuous_mode, tts_playing,
                 pending_restart_listening, HAS_GTTS, words_data>>

\* _handle_touch: the Repeat button, and repeat_word up to the start of its thread.
RepeatWordThread == Thread("repeat_word", "start", 0, Empty, FALSE, "")
RepeatButtonRestartsRound(cap) ==
  /\ state # MODE_SELECT
  /\ current_mode = SPELLING
  /\ spelling_game.difficulty # NoDifficulty
  /\ IF spelling_game.target_word = NoWord
     THEN UNCHANGED <<recognized_text, threads, spelling_game>>
     ELSE /\ NumThreads < cap
          /\ recognized_text' = ListenText(current_lang)
          /\ spelling_game' = [spelling_game EXCEPT !.user_spelling = <<>>]
          /\ threads' = Spawned(RepeatWordThread)
  /\ UNCHANGED <<state, current_lang, current_mode, last_recognized_text,
                 translation_original, is_recording_active, stop_recording_flag,
                 continuous_mode, tts_playing, pending_restart_listening,
                 HAS_GTTS, words_data>>
RepeatButton(cap) ==
  /\ state # MODE_SELECT
  /\ current_mode = SPELLING
  /\ spelling_game.difficulty # NoDifficulty
  /\ IF spelling_game.target_word = NoWord
     THEN UNCHANGED <<recognized_text, threads>>
     ELSE /\ NumThreads < cap
          /\ recognized_text' = ListenText(current_lang)
          /\ threads' = Spawned(RepeatWordThread)
  /\ UNCHANGED <<state, current_lang, current_mode, last_recognized_text,
                 translation_original, is_recording_active, stop_recording_flag,
                 continuous_mode, tts_playing, pending_restart_listening, spelling_game,
                 HAS_GTTS, words_data>>

\* _handle_touch: the main button (and K_SPACE outside MODE_SELECT).
MainButton(cap) ==
  /\ state # MODE_SELECT
  /\ IF state = RECORDING
     THEN /\ stop_recording_flag' = stop_recording_value
          /\ UNCHANGED <<state, is_recording_active, threads>>
     ELSE IF state \in {READY, SHOWING}
     THEN /\ NumThreads < cap
          /\ record_audio_sets
          /\ threads' = Spawned(RecordThread)
     ELSE UNCHANGED <<state, is_recording_active, stop_recording_flag, threads>>
  /\ UNCHANGED <<current_lang, current_mode, recognized_text, last_recognized_text,
                 translation_original, continuous_mode, tts_playing,
                 pending_restart_listening, spelling_game, HAS_GTTS, words_data>>

RestartDueWhilePlaying ==
  /\ pending_restart_listening
  /\ continuous_mode
  /\ ~is_recording_active
  /\ state \in {READY, SHOWING}
\* run(): the pending-restart check of one tick.
RestartDue ==
  /\ pending_restart_listening
  /\ continuous_mode
  /\ ~is_recording_active
  /\ ~tts_playing
  /\ state \in {READY, SHOWING}
TickDropsRequest(cap) ==
  /\ IF RestartDue
     THEN /\ pending_restart_listening' = FALSE
          /\ UNCHANGED <<state, is_recording_active, stop_recording_flag, threads>>
     ELSE UNCHANGED <<pending_restart_listening, state, is_recording_active,
                      stop_recording_flag, threads>>
  /\ UNCHANGED <<current_lang, current_mode, recognized_text, last_recognized_text,
                 translation_original, continuous_mode, tts_playing, spelling_game,
                 HAS_GTTS, words_data>>
Tick(cap) ==
  /\ IF RestartDue
     THEN /\ NumThreads < cap
          /\ pending_restart_listening' = FALSE
          /\ record_audio_sets
          /\ threads' = Spawned(RecordThread)
     ELSE UNCHANGED <<pending_restart_listening, state, is_recording_active,
                      stop_recording_flag, threads>>
  /\ UNCHANGED <<current_lang, current_mode, recognized_text, last_recognized_text,
                 translation_original, continuous_mode, tts_playing, spelling_game,
                 HAS_GTTS, words_data>>

\* ------------------------------------------------- capture thread: record()
\* The except clause of record().
record_failed(t) ==
  /\ is_recording_active' = FALSE
  /\ state' = READY
  /\ threads' = Ended(t)
  /\ UNCHANGED <<stop_recording_flag, recognized_text>>

\* self.audio.open(...): the stream, or an exception.
RecordOpen(t) ==
  /\ t.kind = "record" /\ t.pc = "open"
  /\ \/ /\ threads' = Moved(t, [t EXCEPT !.pc = "loop"])
        /\ UNCHANGED <<is_recording_active, state, stop_recording_flag, recognized_text>>
     \/ record_failed(t)
  /\ UNCHANGED <<current_lang, current_mode, last_recognized_text, translation_original,
                 continuous_mode, tts_playing, pending_restart_listening, spelling_game,
                 HAS_GTTS, words_data>>

RecordChunkNoCeiling(t) ==
  /\ t.kind = "record" /\ t.pc = "loop"
  /\ IF stop_recording_flag \/ state # RECORDING
     THEN /\ threads' = Moved(t, [t EXCEPT !.pc = "close"])
          /\ UNCHANGED <<is_recording_active, state, stop_recording_flag, recognized_text>>
     ELSE \/ /\ threads' = Moved(t, [t EXCEPT !.n = t.n + 1])
             /\ UNCHANGED <<is_recording_active, state, stop_recording_flag, recognized_text>>
          \/ record_failed(t)
  /\ UNCHANGED <<current_lang, current_mode, last_recognized_text, translation_original,
                 continuous_mode, tts_playing, pending_restart_listening, spelling_game,
                 HAS_GTTS, words_data>>
\* One iteration of "for _ in range(max_chunks)": the stop test, then
\* stream.read (a frame, or an exception).
RecordChunk(t) ==
  /\ t.kind = "record" /\ t.pc = "loop"
  /\ IF stop_recording_flag \/ state # RECORDING
     THEN /\ threads' = Moved(t, [t EXCEPT !.pc = "close"])
          /\ UNCHANGED <<is_recording_active, state, stop_recording_flag, recognized_text>>
     ELSE \/ /\ threads' = Moved(t, [t EXCEPT !.n = t.n + 1,
                                              !.pc = IF t.n + 1 = MaxChunks THEN "close" ELSE "loop"])
             /\ UNCHANGED <<is_recording_active, state, stop_recording_flag, recognized_text>>
          \/ record_failed(t)
  /\ UNCHANGED <<current_lang, current_mode, last_recognized_text, translation_original,
                 continuous_mode, tts_playing, pending_restart_listening, spelling_game,
                 HAS_GTTS, words_data>>

RecordCloseAlwaysProcesses(t) ==
  /\ t.kind = "record" /\ t.pc = "close"
  /\ is_recording_active' = FALSE
  /\ stop_recording_flag' = FALSE
  /\ threads' = Moved(t, [t EXCEPT !.pc = "write"])
  /\ UNCHANGED <<state, recognized_text>>
  /\ UNCHANGED <<current_lang, current_mode, last_recognized_text, translation_original,
                 continuous_mode, tts_playing, pending_restart_listening, spelling_game,
                 HAS_GTTS, words_data>>
\* After the loop: the stream is closed and both capture flags are cleared;
\* with no frame the not-understood status is shown.
RecordClose(t) ==
  /\ t.kind = "record" /\ t.pc = "close"
  /\ is_recording_active' = FALSE
  /\ stop_recording_flag' = FALSE
  /\ IF t.n > 0
     THEN /\ threads' = Moved(t, [t EXCEPT !.pc = "write"])
          /\ UNCHANGED <<state, recognized_text>>
     ELSE /\ recognized_text' = get_text(current_lang, "NOT_UNDERSTOOD")
          /\ state' = SHOWING
          /\ threads' = Ended(t)
  /\ UNCHANGED <<current_lang, current_mode, last_recognized_text, translation_original,
                 continuous_mode, tts_playing, pending_restart_listening, spelling_game,
                 HAS_GTTS, words_data>>

\* The wave file is written, then _process_audio() sets PROCESSING and starts
\* process(); an exception while writing the file reaches the except clause.
ProcessThread == Thread("process", "recognize", 0, Empty, FALSE, "")
RecordWrite(t) ==
  /\ t.kind = "record" /\ t.pc = "write"
  /\ \/ /\ state' = PROCESSING
        /\ threads' = Moved(t, ProcessThread)
        /\ UNCHANGED <<is_recording_active, stop_recording_flag, recognized_text>>
     \/ record_failed(t)
  /\ UNCHANGED <<current_lang, current_mode, last_recognized_text, translation_original,
                 continuous_mode, tts_playing, pending_restart_listening, spelling_game,
                 HAS_GTTS, words_data>>

\* --------------------------------------------- recognition thread: process()
ErrorKeyGeneric(error) == "ERROR"
\* The status phrase of each exception clause of process().
ErrorKey(error) ==
  CASE error = "UnknownValueError" -> "NOT_UNDERSTOOD"
    [] error = "RequestError" -> "NETWORK_ERROR"
    [] OTHER -> "ERROR"

\* What process() stores when recognize_google returns a text (possibly
\* empty), and when it raises.
RecognizedText(text) == IF text # Empty THEN text ELSE <<"...">>
ErrorText(error, lang) == get_text(lang, ErrorKey(error))

\* The code of process() after the recognizer returned, up to the next
\* blocking call.
process_route(t, shown, last) ==
  IF current_mode = TRANSLATION /\ last # Empty
  THEN /\ recognized_text' = get_text(current_lang, "TRANSLATING")
       /\ last_recognized_text' = last
       /\ threads' = Moved(t, [t EXCEPT !.pc = "translate", !.text = last,
                                        !.to = OtherCode(current_lang)])
       /\ UNCHANGED <<state, spelling_game>>
  ELSE IF current_mode = SPELLING /\ last # Empty
  THEN check_spelling(last, Ended(t))
  ELSE /\ recognized_text' = shown
       /\ last_recognized_text' = last
       /\ state' = SHOWING
       /\ UNCHANGED spelling_game
       /\ threads' =
            IF current_mode = FREE_SPEECH /\ continuous_mode /\ last # Empty
            THEN Moved(t, [t EXCEPT !.pc = "wait_speak"])
            ELSE IF continuous_mode /\ last = Empty
            THEN Moved(t, [t EXCEPT !.pc = "wait_restart"])
            ELSE Ended(t)

\* process(): recognize_google returned a text (possibly empty).
RecognizeText(t, text) ==
  /\ t.kind = "process" /\ t.pc = "recognize"
  /\ process_route(t, RecognizedText(text), RecognizedText(text))
  /\ UNCHANGED <<current_lang, current_mode, translation_original, is_recording_active,
                 stop_recording_flag, continuous_mode, tts_playing,
                 pending_restart_listening, HAS_GTTS, words_data>>

\* process(): recognize_google (or reading the audio file) raised.
RecognizeError(t, error) ==
  /\ t.kind = "process" /\ t.pc = "recognize"
  /\ process_route(t, ErrorText(error, current_lang), Empty)
  /\ UNCHANGED <<current_lang, current_mode, translation_original, is_recording_active,
                 stop_recording_flag, continuous_mode, tts_playing,
                 pending_restart_listening, HAS_GTTS, words_data>>

\* process() once the recognizer answered; heard: the texts it may return.
ProcessRecognize(t, heard) ==
  \/ \E text \in heard : RecognizeText(t, text)
  \/ \E error \in RecognizeErrors : RecognizeError(t, error)

ProcessTranslatedKeepsTranscript(t) ==
  /\ t.kind = "process" /\ t.pc = "translate"
  /\ \/ /\ recognized_text' = Translation(t.text, t.to)
        /\ last_recognized_text' = Translation(t.text, t.to)
        /\ threads' = Moved(t, [t EXCEPT !.pc = "retain"])
        /\ UNCHANGED state
     \/ /\ recognized_text' = get_text(current_lang, "TRANSLATION_ERROR")
        /\ UNCHANGED last_recognized_text
        /\ state' = SHOWING
        /\ threads' = IF continuous_mode
                      THEN Moved(t, [t EXCEPT !.pc = "wait_restart", !.text = Empty, !.to = ""])
                      ELSE Ended(t)
  /\ UNCHANGED <<current_lang, current_mode, translation_original, is_recording_active,
                 stop_recording_flag, continuous_mode, tts_playing,
                 pending_restart_listening, spelling_game, HAS_GTTS, words_data>>
\* _handle_translation after translate_text returned: a translation (stored
\* in recognized_text and last_recognized_text), or None.
ProcessTranslated(t) ==
  /\ t.kind = "process" /\ t.pc = "translate"
  /\ \/ /\ recognized_text' = Translation(t.text, t.to)
        /\ last_recognized_text' = Translation(t.text, t.to)
        /\ threads' = Moved(t, [t EXCEPT !.pc = "retain"])
        /\ UNCHANGED state
     \/ /\ recognized_text' = get_text(current_lang, "TRANSLATION_ERROR")
        /\ last_recognized_text' = Empty
        /\ state' = SHOWING
        /\ threads' = IF continuous_mode
                      THEN Moved(t, [t EXCEPT !.pc = "wait_restart", !.text = Empty, !.to = ""])
                      ELSE Ended(t)
  /\ UNCHANGED <<current_lang, current_mode, translation_original, is_recording_active,
                 stop_recording_flag, continuous_mode, tts_playing,
                 pending_restart_listening, spelling_game, HAS_GTTS, words_data>>

\* _handle_translation, success branch: translation_original = spoken_text,
\* state = SHOWING, then pygame.time.wait(300).
ProcessRetain(t) ==
  /\ t.kind = "process" /\ t.pc = "retain"
  /\ translation_original' = t.text
  /\ state' = SHOWING
  /\ threads' = Moved(t, [t EXCEPT !.pc = "wait_speak_in_language",
                                   !.text = Translation(t.text, t.to)])
  /\ UNCHANGED <<current_lang, current_mode, recognized_text, last_recognized_text,
                 is_recording_active, stop_recording_flag, continuous_mode, tts_playing,
                 pending_restart_listening, spelling_game, HAS_GTTS, words_data>>

\* process(): after pygame.time.wait(300), speak_text(restart_after=True).
ProcessSpeak(t) ==
  /\ t.kind = "process" /\ t.pc = "wait_speak"
  /\ speak_text(Empty, TRUE, Ended(t))
  /\ UNCHANGED <<state, current_lang, current_mode, recognized_text, last_recognized_text,
                 translation_original, is_recording_active, stop_recording_flag,
                 continuous_mode, tts_playing, spelling_game, HAS_GTTS, words_data>>

\* _handle_translation: after pygame.time.wait(300),
\* speak_in_language(translation, to_lang, restart_after=self.continuous_mode).
ProcessSpeakInLanguage(t) ==
  /\ t.kind = "process" /\ t.pc = "wait_speak_in_language"
  /\ speak_in_language(t.text, t.to, continuous_mode, Ended(t))
  /\ UNCHANGED <<state, current_lang, current_mode, recognized_text, last_recognized_text,
                 translation_original, is_recording_active, stop_recording_flag,
                 continuous_mode, tts_playing, spelling_game, HAS_GTTS, words_data>>

ProcessRestartForgets(t) ==
  /\ t.kind = "process" /\ t.pc = "wait_restart"
  /\ threads' = Ended(t)
  /\ UNCHANGED <<state, current_lang, current_mode, recognized_text, last_recognized_text,
                 translation_original, is_recording_active, stop_recording_flag,
                 continuous_mode, tts_playing, pending_restart_listening, spelling_game,
                 HAS_GTTS, words_data>>
\* process() and _handle_translation: after pygame.time.wait(1000), the
\* restart is requested.
ProcessRestart(t) ==
  /\ t.kind = "process" /\ t.pc = "wait_restart"
  /\ pending_restart_listening' = TRUE
  /\ threads' = Ended(t)
  /\ UNCHANGED <<state, current_lang, current_mode, recognized_text, last_recognized_text,
                 translation_original, is_recording_active, stop_recording_flag,
                 continuous_mode, tts_playing, spelling_game, HAS_GTTS, words_data>>

\* ------------------------- synthesis threads of speak_text, speak_in_language
\* The two speak() functions differ only in the language code they pass to
\* gTTS: their threads are of one kind.

SpeakBeginRequestsRestart(t) ==
  /\ t.kind = "speak" /\ t.pc = "start"
  /\ tts_playing' = TRUE
  /\ pending_restart_listening' =
       (IF t.restart /\ continuous_mode THEN TRUE ELSE pending_restart_listening)
  /\ threads' = Moved(t, [t EXCEPT !.pc = "synth"])
  /\ UNCHANGED <<state, current_lang, current_mode, recognized_text, last_recognized_text,
                 translation_original, is_recording_active, stop_recording_flag,
                 continuous_mode, spelling_game, HAS_GTTS, words_data>>
\* speak(): self.tts_playing = True.
SpeakBegin(t) ==
  /\ t.kind = "speak" /\ t.pc = "start"
  /\ tts_playing' = TRUE
  /\ threads' = Moved(t, [t EXCEPT !.pc = "synth"])
  /\ UNCHANGED <<state, current_lang, current_mode, recognized_text, last_recognized_text,
                 translation_original, is_recording_active, stop_recording_flag,
                 continuous_mode, pending_restart_listening, spelling_game, HAS_GTTS, words_data>>

SpeakSynthStalls(t) ==
  /\ t.kind = "speak" /\ t.pc = "synth"
  /\ \/ threads' = Moved(t, [t EXCEPT !.pc = "playing"])
     \/ threads' = Ended(t)
  /\ UNCHANGED <<state, current_lang, current_mode, recognized_text, last_recognized_text,
                 translation_original, is_recording_active, stop_recording_flag,
                 continuous_mode, tts_playing, pending_restart_listening, spelling_game,
                 HAS_GTTS, words_data>>
\* speak(): gTTS, save, load, play: playback starts, or the except clause runs.
SpeakSynth(t) ==
  /\ t.kind = "speak" /\ t.pc = "synth"
  /\ \/ /\ threads' = Moved(t, [t EXCEPT !.pc = "playing"])
        /\ UNCHANGED <<tts_playing, pending_restart_listening>>
     \/ /\ tts_playing' = FALSE
        /\ pending_restart_listening' =
             (IF t.restart /\ continuous_mode THEN TRUE ELSE pending_restart_listening)
        /\ threads' = Ended(t)
  /\ UNCHANGED <<state, current_lang, current_mode, recognized_text, last_recognized_text,
                 translation_original, is_recording_active, stop_recording_flag,
                 continuous_mode, spelling_game, HAS_GTTS, words_data>>

\* speak(): playback is over: self.tts_playing = False, then the restart test.
SpeakDone(t) ==
  /\ t.kind = "speak" /\ t.pc = "playing"
  /\ tts_playing' = FALSE
  /\ threads' = IF t.restart /\ continuous_mode
                THEN Moved(t, [t EXCEPT !.pc = "wait_restart"]) ELSE Ended(t)
  /\ UNCHANGED <<state, current_lang, current_mode, recognized_text, last_recognized_text,
                 translation_original, is_recording_active, stop_recording_flag,
                 continuous_mode, pending_restart_listening, spelling_game, HAS_GTTS, words_data>>

\* speak(): after pygame.time.wait(500), the restart is requested.
SpeakRestart(t) ==
  /\ t.kind = "speak" /\ t.pc = "wait_restart"
  /\ pending_restart_listening' = TRUE
  /\ threads' = Ended(t)
  /\ UNCHANGED <<state, current_lang, current_mode, recognized_text, last_recognized_text,
                 translation_original, is_recording_active, stop_recording_flag,
                 continuous_mode, tts_playing, spelling_game, HAS_GTTS, words_data>>

\* ------------------------------- synthesis threads of the spelling game
\* after_speak of next_word.
next_word_after_speak(t) ==
  /\ recognized_text' = YourTurnText(current_lang)
  /\ state' = READY
  /\ threads' = Ended(t)

\* speak_word of next_word: synthesis and play (when gTTS is there).
SpeakWordStart(t) ==
  /\ t.kind = "speak_word" /\ t.pc = "start"
  /\ IF HAS_GTTS
     THEN \/ /\ threads' = Moved(t, [t EXCEPT !.pc = "playing"])
             /\ UNCHANGED <<recognized_text, state>>
          \/ next_word_after_speak(t)
     ELSE next_word_after_speak(t)
  /\ UNCHANGED <<current_lang, current_mode, last_recognized_text, translation_original,
                 is_recording_active, stop_recording_flag, continuous_mode, tts_playing,
                 pending_restart_listening, spelling_game, HAS_GTTS, words_data>>

\* speak_word of next_word: playback is over.
SpeakWordDone(t) ==
  /\ t.kind = "speak_word" /\ t.pc = "playing"
  /\ next_word_after_speak(t)
  /\ UNCHANGED <<current_lang, current_mode, last_recognized_text, translation_original,
                 is_recording_active, stop_recording_flag, continuous_mode, tts_playing,
                 pending_restart_listening, spelling_game, HAS_GTTS, words_data>>

\* after_speak of repeat_word.
repeat_word_after_speak(t) ==
  /\ recognized_text' = YourTurnText(current_lang)
  /\ threads' = Ended(t)

\* speak_word of repeat_word.
RepeatWordStart(t) ==
  /\ t.kind = "repeat_word" /\ t.pc = "start"
  /\ IF HAS_GTTS
     THEN \/ /\ threads' = Moved(t, [t EXCEPT !.pc = "playing"])
             /\ UNCHANGED recognized_text
          \/ repeat_word_after_speak(t)
     ELSE repeat_word_after_speak(t)
  /\ UNCHANGED <<state, current_lang, current_mode, last_recognized_text,
                 translation_original, is_recording_active, stop_recording_flag,
                 continuous_mode, tts_playing, pending_restart_listening, spelling_game,
                 HAS_GTTS, words_data>>

RepeatWordDone(t) ==
  /\ t.kind = "repeat_word" /\ t.pc = "playing"
  /\ repeat_word_after_speak(t)
  /\ UNCHANGED <<state, current_lang, current_mode, last_recognized_text,
                 translation_original, is_recording_active, stop_recording_flag,
                 continuous_mode, tts_playing, pending_restart_listening, spelling_game,
                 HAS_GTTS, words_data>>

\* success_flow of check_spelling: the affirmation is synthesized and played
\* (when gTTS is there); on an exception the pause follows at once.
SuccessFlowStart(t) ==
  /\ t.kind = "success_flow" /\ t.pc = "start"
  /\ IF HAS_GTTS
     THEN \/ threads' = Moved(t, [t EXCEPT !.pc = "playing"])
          \/ threads' = Moved(t, [t EXCEPT !.pc = "wait_next"])
     ELSE threads' = Moved(t, [t EXCEPT !.pc = "wait_next"])
  /\ UNCHANGED <<state, current_lang, current_mode, recognized_text, last_recognized_text,
                 translation_original, is_recording_active, stop_recording_flag,
                 continuous_mode, tts_playing, pending_restart_listening, spelling_game,
                 HAS_GTTS, words_data>>

SuccessFlowDone(t) ==
  /\ t.kind = "success_flow" /\ t.pc = "playing"
  /\ threads' = Moved(t, [t EXCEPT !.pc = "wait_next"])
  /\ UNCHANGED <<state, current_lang, current_mode, recognized_text, last_recognized_text,
                 translation_original, is_recording_active, stop_recording_flag,
                 continuous_mode, tts_playing, pending_restart_listening, spelling_game,
                 HAS_GTTS, words_data>>

SuccessFlowEnds(t) ==
  /\ t.kind = "success_flow" /\ t.pc = "wait_next"
  /\ threads' = Ended(t)
  /\ UNCHANGED <<state, current_lang, current_mode, recognized_text, last_recognized_text,
                 translation_original, is_recording_active, stop_recording_flag,
                 continuous_mode, tts_playing, pending_restart_listening, spelling_game,
                 HAS_GTTS, words_data>>
\* success_flow: after pygame.time.wait(2000), self.next_word().
SuccessFlowNext(t) ==
  /\ t.kind = "success_flow" /\ t.pc = "wait_next"
  /\ next_word(spelling_game, Ended(t))
  /\ UNCHANGED <<current_lang, current_mode, last_recognized_text, translation_original,
                 is_recording_active, stop_recording_flag, continuous_mode, tts_playing,
                 pending_restart_listening, HAS_GTTS, words_data>>

\* ------------------------------------------------------------ specification
UserEvent(cap) ==
  \/ \E mode \in GameMode : SelectMode(mode)
  \/ BackButton
  \/ ToggleContinuous(cap)
  \/ SpeakerButton(cap)
  \/ \E difficulty \in Difficulties : SelectDifficulty(difficulty, cap)
  \/ NextButton(cap)
  \/ RepeatButton(cap)
  \/ MainButton(cap)

\* One step of a background thread other than the recognizer's return.
Background ==
  \E t \in Live :
    \/ RecordOpen(t)
    \/ RecordChunk(t)
    \/ RecordClose(t)
    \/ RecordWrite(t)
    \/ ProcessTranslated(t)
    \/ ProcessRetain(t)
    \/ ProcessSpeak(t)
    \/ ProcessSpeakInLanguage(t)
    \/ ProcessRestart(t)
    \/ SpeakBegin(t)
    \/ SpeakSynth(t)
    \/ SpeakDone(t)
    \/ SpeakRestart(t)
    \/ SpeakWordStart(t)
    \/ SpeakWordDone(t)
    \/ RepeatWordStart(t)
    \/ RepeatWordDone(t)
    \/ SuccessFlowStart(t)
    \/ SuccessFlowDone(t)
    \/ SuccessFlowNext(t)

\* The concurrent session in the start-up language: up to MaxThreads
\* background threads interleave with the user's events and the ticks.  The
\* user taps the button of the active language (set_language then resets the
\* state without changing the language).
Recognized == \E t \in Live : ProcessRecognize(t, Utterances(current_lang))
TapLanguage == SetLanguage(current_lang)
Next ==
  \/ UserEvent(MaxThreads)
  \/ TapLanguage
  \/ Tick(MaxThreads)
  \/ Background
  \/ Recognized

Spec == Init /\ [][Next]_vars

\* The bilingual session: the language changes at any time and the
\* recognizer may return an empty transcript; the user starts a task when no
\* other is alive.
OneAtATime == 1
RecognizedOrEmpty ==
  \E t \in Live : ProcessRecognize(t, Utterances(current_lang) \cup {Empty})
ChangeLanguage == \E lang \in LANGUAGES : SetLanguage(lang)
BilingualNext ==
  \/ UserEvent(OneAtATime)
  \/ ChangeLanguage
  \/ Tick(OneAtATime)
  \/ Background
  \/ RecognizedOrEmpty

BilingualSpec == Init /\ [][BilingualNext]_vars

\* A spelling game on the rich word pools, in either language: the state
\* after the language keys and the Spelling button, with words_data read
\* from a words.json that holds RichWords.
SpellingInit ==
  /\ state = READY
  /\ current_lang \in LANGUAGES
  /\ current_mode = SPELLING
  /\ recognized_text = Empty
  /\ last_recognized_text = Empty
  /\ translation_original = Empty
  /\ is_recording_active = FALSE
  /\ stop_recording_flag = FALSE
  /\ continuous_mode = FALSE
  /\ tts_playing = FALSE
  /\ pending_restart_listening = FALSE
  /\ spelling_game = NewSpellingGame
  /\ words_data = RichWords
  /\ HAS_GTTS \in BOOLEAN
  /\ threads = EmptyBag

RecognizedLetter == \E t \in Live : ProcessRecognize(t, SpellingUtterances(current_lang))
SpellingBackground ==
  \E t \in Live :
    \/ RecordOpen(t)
    \/ RecordChunk(t)
    \/ RecordClose(t)
    \/ RecordWrite(t)
    \/ SpeakWordStart(t)
    \/ SpeakWordDone(t)
    \/ RepeatWordStart(t)
    \/ RepeatWordDone(t)
    \/ SuccessFlowStart(t)
    \/ SuccessFlowDone(t)
    \/ SuccessFlowNext(t)
SpellingNext ==
  \/ \E difficulty \in Difficulties : SelectDifficulty(difficulty, OneAtATime)
  \/ NextButton(OneAtATime)
  \/ RepeatButton(OneAtATime)
  \/ MainButton(OneAtATime)
  \/ SpellingBackground
  \/ RecognizedLetter

SpellingSpec == SpellingInit /\ [][SpellingNext]_vars

\* The spelling session with the continuous toggle and the tick, for what
\* must eventually happen: a started thread function keeps running, so a
\* thread that can take a step takes one (playback ends, the waits return).
SpellingRestart == \E t \in Live : ProcessRestart(t)
SpellingLoopNext ==
  \/ SpellingNext
  \/ ToggleContinuous(OneAtATime)
  \/ Tick(OneAtATime)
  \/ SpellingRestart
SpellingLoopSpec ==
  /\ SpellingInit /\ [][SpellingLoopNext]_vars
  /\ WF_vars(SpellingBackground)

\* ================================================================ properties
\* The blocking operations a thread can be inside of.
InCapture(t) == t.kind = "record" /\ t.pc \in {"open", "loop", "close"}
InRecognition(t) == t.kind = "process" /\ t.pc = "recognize"
InTranslation(t) == t.kind = "process" /\ t.pc = "translate"
InSynthesis(t) ==
  \/ t.kind = "speak" /\ t.pc \in {"synth", "playing"}
  \/ t.kind \in {"speak_word", "repeat_word", "success_flow"} /\ t.pc = "playing"
Playing(t) == t.kind \in {"speak", "speak_word", "repeat_word", "success_flow"} /\ t.pc = "playing"
Blocking(t) == InCapture(t) \/ InRecognition(t) \/ InTranslation(t) \/ InSynthesis(t)
RECURSIVE CopiesOver(_)
CopiesOver(S) ==
  IF S = {} THEN 0
  ELSE LET t == CHOOSE x \in S : TRUE IN CopiesIn(t, threads) + CopiesOver(S \ {t})
LiveOperations == CopiesOver({t \in Live : Blocking(t)})

\* C1: single-flight: in every reachable state at most one of the blocking
\* operations (a capture run, a recognition call, a translation call, a
\* synthesis/playback task) is live.
C1_SingleFlight == LiveOperations <= 1

\* C2: continuous restart (as a final result): once no background task is
\* left to change anything, a restart that is requested in continuous mode
\* with tts_playing and is_recording_active both false is started by the
\* next tick.
C2_RestartStarts ==
  (/\ threads = EmptyBag
   /\ continuous_mode /\ pending_restart_listening
   /\ ~tts_playing /\ ~is_recording_active) => RestartDue

\* C3: the automatic restart of a tick never starts a capture run while a
\* synthesis playback is in progress or another capture run is live.
AutoRestart == RestartDue /\ Tick(MaxThreads)
C3_RestartWhenQuiet ==
  [][AutoRestart => \A t \in Live : ~Playing(t) /\ ~InCapture(t)]_vars

\* C4: mode reset: a step that leaves a non-MODE_SELECT state for
\* MODE_SELECT (the back action) clears the game mode, both transcripts, the
\* translation original and the spelling round, disables continuous mode,
\* drops a requested restart, and requests the stop of an active capture.
C4_BackResets ==
  [][(state # MODE_SELECT /\ state' = MODE_SELECT) =>
       /\ current_mode' = NoMode
       /\ recognized_text' = Empty
       /\ last_recognized_text' = Empty
       /\ translation_original' = Empty
       /\ spelling_game'.difficulty = NoDifficulty
       /\ spelling_game'.target_word = NoWord
       /\ spelling_game'.user_spelling = <<>>
       /\ spelling_game'.word_list = <<>>
       /\ ~continuous_mode'
       /\ ~pending_restart_listening'
       /\ (is_recording_active => stop_recording_flag')]_vars
\* The back action was taken during a capture, which it asked to stop.
C4_BackDuringCapture == state = MODE_SELECT /\ is_recording_active /\ stop_recording_flag

\* C5: failure clears transcript: when a recognition attempt ends with
\* NotUnderstood, a network error or any other error, in any game mode,
\* last_recognized_text becomes empty and recognized_text becomes the
\* localized phrase of that error kind; the three phrases of a language are
\* distinct.
StatusPhrase(error, lang) ==
  CASE error = "UnknownValueError" -> UI_TEXT[lang].NOT_UNDERSTOOD
    [] error = "RequestError" -> UI_TEXT[lang].NETWORK_ERROR
    [] OTHER -> UI_TEXT[lang].ERROR
C5_FailureClearsTranscript ==
  [][\A t \in Live : \A error \in RecognizeErrors :
       RecognizeError(t, error) =>
         /\ last_recognized_text' = Empty
         /\ recognized_text' = StatusPhrase(error, current_lang)
         /\ \A other \in RecognizeErrors \ {error} :
              StatusPhrase(other, current_lang) # recognized_text']_vars
\* A network error was reported in English during a spelling game.
C5_NetworkErrorShown ==
  /\ current_mode = SPELLING /\ current_lang = "english" /\ state = SHOWING
  /\ recognized_text = UI_TEXT.english.NETWORK_ERROR
  /\ last_recognized_text = Empty

\* A step of check_spelling that fills one more slot of the same target word,
\* and the marks of a completed round.
Fills ==
  /\ spelling_game'.target_word = spelling_game.target_word
  /\ Len(spelling_game'.user_spelling) = Len(spelling_game.user_spelling) + 1
MarkedComplete == state = SHOWING /\ recognized_text = SuccessText(current_lang)

\* C6: spelling completeness: every matching utterance fills exactly one
\* more slot, never more slots than the target word has letters; the step
\* that fills the n-th slot of an n-letter word marks the round complete
\* (success status, state SHOWING), a step that fills an earlier slot does
\* not, and the round is never newly marked complete otherwise.
C6_SpellingCompleteness ==
  [][/\ Fills =>
          /\ Len(spelling_game'.user_spelling) <= Len(spelling_game.target_word)
          /\ MarkedComplete' <=>
               (Len(spelling_game'.user_spelling) = Len(spelling_game.target_word))
     /\ (MarkedComplete' /\ ~MarkedComplete) => Fills]_vars
\* A four-letter word was spelled to the end.
C6_FourLetterWordComplete ==
  /\ Len(spelling_game.target_word) = 4
  /\ Len(spelling_game.user_spelling) = 4
  /\ MarkedComplete

\* The leftmost slot of the target word that is still unfilled and holds the
\* letter ch (-1: none).
LeftmostFree(ch) ==
  LET free == {i \in 0..(Len(spelling_game.target_word) - 1) :
                 /\ i \notin FilledPositions(spelling_game.user_spelling)
                 /\ LowerChar(spelling_game.target_word[i + 1]) = LowerChar(ch)}
  IN IF free = {} THEN -1 ELSE SetMin(free)

\* C7: duplicate-letter, order-independent matching: in every state of a
\* round no slot is filled twice and every filled slot holds its letter;
\* whichever letter of a still-unfilled slot is uttered next is accepted for
\* the leftmost unfilled slot holding it (so any ordering of the letters
\* proceeds); every filling step fills that leftmost slot, and the round is
\* marked complete exactly by the len(target_word)-th filling.
C7_SlotsFilledOnce ==
  LET us == spelling_game.user_spelling
      tw == spelling_game.target_word
  IN tw # NoWord =>
       /\ \A j, k \in 1..Len(us) : j # k => us[j].position # us[k].position
       /\ \A k \in 1..Len(us) :
            /\ us[k].position \in 0..(Len(tw) - 1)
            /\ LowerChar(tw[us[k].position + 1]) = LowerChar(us[k].char)
       /\ \A i \in (0..(Len(tw) - 1)) \ FilledPositions(us) :
            SpellingMatch(<<tw[i + 1]>>, current_lang, tw, us).index = LeftmostFree(tw[i + 1])
C7_DuplicateLetters ==
  /\ []C7_SlotsFilledOnce
  /\ [][Fills =>
          LET new == spelling_game'.user_spelling[Len(spelling_game'.user_spelling)]
          IN /\ new.position = LeftmostFree(new.char)
             /\ new.position >= 0
             /\ MarkedComplete' <=>
                  (Len(spelling_game'.user_spelling) = Len(spelling_game.target_word))]_vars
\* "dad" was completed by uttering a, d, d: the first d took slot 0, the
\* second d slot 2.
C7_DadSpelledOutOfOrder ==
  /\ spelling_game.target_word = <<"d", "a", "d">>
  /\ Len(spelling_game.user_spelling) = 3
  /\ spelling_game.user_spelling[1].position = 1
  /\ spelling_game.user_spelling[2].position = 0
  /\ spelling_game.user_spelling[3].position = 2
  /\ MarkedComplete

\* _draw_game_screen: the letter boxes of the round, one per letter of the
\* target word (filled: drawn green with a character; else gray with "_").
letter_boxes ==
  LET letters == spelling_game.target_word
      user_spelling == spelling_game.user_spelling
  IN [i \in 0..(Len(letters) - 1) |->
        IF i < Len(user_spelling)
        THEN [filled |-> TRUE, display_char |-> user_spelling[i + 1].char]
        ELSE [filled |-> FALSE, display_char |-> "_"]]

\* _draw_game_screen: the text of the display area, and the original drawn
\* above it in translation mode (Empty: none is drawn).
display_text ==
  IF state = SHOWING /\ recognized_text # Empty THEN recognized_text
  ELSE IF state = RECORDING THEN get_text(current_lang, "LISTENING")
  ELSE IF state = PROCESSING THEN get_text(current_lang, "THINKING")
  ELSE IF current_mode = TRANSLATION THEN get_text(current_lang, "TRANSLATE_TO")
  ELSE get_text(current_lang, "SAY_SOMETHING")
shown_original ==
  IF /\ current_mode = TRANSLATION /\ state = SHOWING
     /\ translation_original # Empty /\ recognized_text # Empty
  THEN translation_original ELSE Empty
\* A text the translator returned, and the text it was made from.
IsTranslation(text) == Len(text) > 3 /\ text[1] = "[->" /\ text[3] = "]"
TranslatedFrom(text) == SubSeq(text, 4, Len(text))

\* C8: in translation mode, whenever the state is SHOWING and the display
\* shows a translation, the original drawn above it is the utterance that
\* translation was made from.
C8_OriginalWithTranslation ==
  (current_mode = TRANSLATION /\ state = SHOWING /\ IsTranslation(display_text))
    => shown_original = TranslatedFrom(display_text)

\* C9: no frozen UI (as a final result): the session is not left in
\* PROCESSING once no background task remains to move it on.
C9_ProcessingEnds == threads = EmptyBag => state # PROCESSING

\* C10: UI consistency: whenever the state is RECORDING a capture is active.
C10_RecordingIsActive == state = RECORDING => is_recording_active

\* C11: synthesis is never concurrent with itself: at most one synthesis /
\* playback task (of speak_text, speak_in_language, next_word, repeat_word or
\* success_flow) is running in any reachable state.
SynthesisTasks == CopiesOver({t \in Live : InSynthesis(t)})
C11_OneSynthesis == SynthesisTasks <= 1

\* C12: every capture run terminates: a run never holds more than the
\* maximum number of frames, is out of its read loop once it holds that many,
\* and every step it takes in the loop reads one more frame, leaves the loop
\* or ends the run, whether or not a stop was requested.
C12_FramesBounded ==
  \A t \in Live : t.kind = "record" =>
    /\ t.n <= MaxChunks
    /\ t.pc = "loop" => t.n < MaxChunks
C12_CaptureTerminates ==
  /\ []C12_FramesBounded
  /\ [][\A t \in Live :
          (/\ t.kind = "record" /\ t.pc = "loop"
           /\ CopiesIn(t, threads') < CopiesIn(t, threads)) =>
            \/ BagCardinality(threads') < BagCardinality(threads)
            \/ \E u \in BagToSet(threads') :
                 /\ u.kind = "record"
                 /\ CopiesIn(u, threads') > CopiesIn(u, threads)
                 /\ u.pc = "close" \/ (u.pc = "loop" /\ u.n = t.n + 1)]_vars
\* A run was ended by the ceiling alone: it holds the maximum number of
\* frames and no stop was requested.
C12_EndedByCeiling ==
  /\ state = RECORDING /\ ~stop_recording_flag
  /\ \E t \in Live : t.kind = "record" /\ t.pc = "close" /\ t.n = MaxChunks

\* C13: every change of the session state is one of the listed transitions:
\* MODE_SELECT to READY; READY or SHOWING to RECORDING; RECORDING to
\* PROCESSING, SHOWING or READY; PROCESSING to SHOWING or READY; SHOWING or
\* READY to MODE_SELECT.
ListedTransitions ==
  { <<MODE_SELECT, READY>>,
    <<READY, RECORDING>>, <<SHOWING, RECORDING>>,
    <<RECORDING, PROCESSING>>, <<RECORDING, SHOWING>>, <<RECORDING, READY>>,
    <<PROCESSING, SHOWING>>, <<PROCESSING, READY>>,
    <<SHOWING, MODE_SELECT>>, <<READY, MODE_SELECT>> }
C13_ListedTransitionsOnly ==
  [][state' # state => <<state, state'>> \in ListedTransitions]_vars

\* The step in which the playback of thread t is over.
PlaybackEnds(t) ==
  SpeakDone(t) \/ SpeakWordDone(t) \/ RepeatWordDone(t) \/ SuccessFlowDone(t)

\* C14: in continuous mode the end of a playback is followed by an automatic
\* capture start (as a final result): the step that ends a playback while
\* continuous mode is on never leaves the session with no capture running,
\* no restart requested and no background task left that could request one.
C14_PlaybackLeadsToCapture ==
  [][\A t \in Live :
       (continuous_mode /\ PlaybackEnds(t)) =>
         ~(/\ threads' = EmptyBag
           /\ ~pending_restart_listening'
           /\ state' # RECORDING)]_vars

\* C15: the tick starts a capture only when a restart is requested,
\* continuous mode is on, no capture is active, nothing plays and the state
\* is READY or SHOWING, and it clears the request in that same step; when one
\* of these fails the tick changes neither the request nor the state.
C15_TickPolls ==
  [][Tick(MaxThreads) =>
       IF /\ pending_restart_listening /\ continuous_mode
          /\ ~is_recording_active /\ ~tts_playing
          /\ state \in {READY, SHOWING}
       THEN /\ ~pending_restart_listening'
            /\ state' = RECORDING /\ is_recording_active' /\ ~stop_recording_flag'
            /\ threads' = threads (+) SetToBag({RecordThread})
       ELSE UNCHANGED <<pending_restart_listening, state, is_recording_active, threads>>]_vars
\* A restart requested after a recognition in continuous free speech was
\* consumed: the capture runs and the request is cleared.
C15_RestartConsumed ==
  /\ current_mode = FREE_SPEECH /\ continuous_mode
  /\ state = RECORDING /\ is_recording_active
  /\ ~pending_restart_listening
  /\ last_recognized_text # Empty
  /\ threads = SetToBag({RecordThread})

\* C16: restart_requested is set only while continuous mode is on: in every
\* step that changes pending_restart_listening to true, continuous_mode is
\* true.
C16_RequestedOnlyWhenContinuous ==
  [][(~pending_restart_listening /\ pending_restart_listening') => continuous_mode]_vars

\* A step of the main thread: no background thread moves or ends in it (it
\* may start one).
MainThreadStep == \A t \in Live : CopiesIn(t, threads') >= CopiesIn(t, threads)
\* The step starts a capture run.
CaptureStarts ==
  /\ state' = RECORDING /\ is_recording_active'
  /\ threads' = threads (+) SetToBag({RecordThread})

\* C17 as stated: every step that changes pending_restart_listening from
\* true to false is a step of the main thread that starts a capture.
C17_ClearedOnlyByTick ==
  [][(pending_restart_listening /\ ~pending_restart_listening') =>
       (MainThreadStep /\ CaptureStarts)]_vars
\* C17, amended: pending_restart_listening changes from true to false only in
\* a step of the main thread, never in a background task: either the tick,
\* whose restart condition holds and which starts a capture in that step, or
\* the back action, which leaves for MODE_SELECT and starts none.
C17_ClearedByTickOrBack ==
  [][(pending_restart_listening /\ ~pending_restart_listening') =>
       /\ MainThreadStep
       /\ \/ /\ continuous_mode /\ ~is_recording_active /\ ~tts_playing
             /\ state \in {READY, SHOWING}
             /\ CaptureStarts
          \/ /\ state # MODE_SELECT /\ state' = MODE_SELECT
             /\ threads' = threads]_vars
\* A restart requested after a translation was taken by the tick: the
\* capture runs in continuous translation mode and the request is cleared.
C17_RestartTaken ==
  /\ current_mode = TRANSLATION /\ continuous_mode
  /\ state = RECORDING /\ is_recording_active
  /\ ~pending_restart_listening
  /\ translation_original # Empty
  /\ threads = SetToBag({RecordThread})

\* C18: when a capture run has ended by any path both capture flags are
\* false: a stop request is never left standing without an active capture.
C18_FlagsClearedTogether == stop_recording_flag => is_recording_active

\* C19: _stop_recording is idempotent and has effect only while a capture is
\* active: a main-button stop with is_recording_active false changes no
\* variable, one with is_recording_active true changes at most
\* stop_recording_flag, to true, and a further call in the state reached
\* would store the value the flag already has.
C19_StopIdempotent ==
  [][(state = RECORDING /\ MainButton(OneAtATime)) =>
       /\ ~is_recording_active => UNCHANGED vars
       /\ is_recording_active => stop_recording_flag'
       /\ stop_recording_value' = stop_recording_flag'
       /\ UNCHANGED <<state, current_lang, current_mode, recognized_text,
                      last_recognized_text, translation_original,
                      is_recording_active, continuous_mode, tts_playing,
                      pending_restart_listening, spelling_game, HAS_GTTS,
                      words_data, threads>>]_vars
\* A stop was requested on an active capture that has not yet seen it: a
\* further main-button tap calls _stop_recording again.
C19_StopRequested ==
  /\ state = RECORDING /\ is_recording_active /\ stop_recording_flag
  /\ \E t \in Live : t.kind = "record" /\ t.pc = "loop"

\* The capture runs and the recognition threads in a bag of threads.
RECURSIVE KindCount(_, _, _)
KindCount(kind, bag, S) ==
  IF S = {} THEN 0
  ELSE LET t == CHOOSE x \in S : TRUE
       IN (IF t.kind = kind THEN CopiesIn(t, bag) ELSE 0) + KindCount(kind, bag, S \ {t})
CaptureRuns(bag) == KindCount("record", bag, BagToSet(bag))
Recognitions(bag) == KindCount("process", bag, BagToSet(bag))
\* The capture run t ends in this step.
RunEnds(t) ==
  /\ t.kind = "record"
  /\ CopiesIn(t, threads') < CopiesIn(t, threads)
  /\ CaptureRuns(threads') < CaptureRuns(threads)

C21_StartIgnoredWhenBusy ==
  [][(/\ state \in {RECORDING, PROCESSING}
      /\ \/ ~continuous_mode /\ ToggleContinuous(OneAtATime)
         \/ Tick(OneAtATime)) =>
       UNCHANGED <<state, is_recording_active, stop_recording_flag, threads>>]_vars
\* A restart is requested in continuous mode with no capture and no playback
\* active, and only the state, PROCESSING, keeps the tick from starting one.
C21_RestartHeldBack ==
  /\ state = PROCESSING
  /\ pending_restart_listening /\ continuous_mode
  /\ ~is_recording_active /\ ~tts_playing
  /\ threads = SetToBag({ProcessThread})

\* C22: the continuous toggle acts on the capture in the same step: turned on
\* while the state is READY or SHOWING it starts a capture run (the state
\* becomes RECORDING, the run is active), and turned off while a capture is
\* active it sets stop_recording_flag; the run that sees the flag leaves its
\* read loop at its next step.
C22_ToggleActsAtOnce ==
  /\ [][ToggleContinuous(OneAtATime) =>
          /\ (~continuous_mode /\ state \in {READY, SHOWING}) =>
               /\ continuous_mode' /\ CaptureStarts /\ ~stop_recording_flag'
          /\ (continuous_mode /\ is_recording_active) =>
               /\ ~continuous_mode' /\ stop_recording_flag'
               /\ UNCHANGED <<state, is_recording_active, threads>>]_vars
  /\ [][\A t \in Live :
          (/\ stop_recording_flag /\ t.kind = "record" /\ t.pc = "loop"
           /\ CopiesIn(t, threads') < CopiesIn(t, threads)) =>
            \/ CopiesIn([t EXCEPT !.pc = "close"], threads') >
                 CopiesIn([t EXCEPT !.pc = "close"], threads)
            \/ BagCardinality(threads') < BagCardinality(threads)]_vars
\* Continuous mode was turned off during a capture: the run is still in its
\* read loop with the stop request standing.
C22_ToggledOffDuringCapture ==
  /\ ~continuous_mode /\ state = RECORDING
  /\ is_recording_active /\ stop_recording_flag
  /\ current_mode = TRANSLATION
  /\ \E t \in Live : t.kind = "record" /\ t.pc = "loop" /\ t.n = 1

\* The background thread t takes this step.
Steps(t) == CopiesIn(t, threads') < CopiesIn(t, threads)
\* The step requests a restart.
RestartRequested == ~pending_restart_listening /\ pending_restart_listening'

\* C23 as stated: in free speech with continuous mode on, the restart that
\* follows a recognised text is requested only with no playback active:
\* tts_playing is false when pending_restart_listening becomes true.
C23_RestartOutsidePlayback ==
  [][\A t \in Live :
       (/\ current_mode = FREE_SPEECH /\ continuous_mode
        /\ t.kind = "speak" /\ t.restart
        /\ Steps(t) /\ RestartRequested) => ~tts_playing']_vars
\* C23, amended: in free speech with continuous mode on, a recognised text is
\* stored and shown with the state SHOWING and no restart requested; the
\* thread then starts the synthesis of the text (when gTTS is there), still
\* without a request; and the synthesis thread requests the restart in none
\* of its steps up to the end of its own playback: only after it, or when the
\* synthesis fails.
C23_RestartAfterOwnPlayback ==
  [][\A t \in Live :
       (current_mode = FREE_SPEECH /\ continuous_mode /\ Steps(t)) =>
         /\ (InRecognition(t) /\ last_recognized_text' # Empty) =>
              /\ state' = SHOWING
              /\ recognized_text' = last_recognized_text'
              /\ CopiesIn([t EXCEPT !.pc = "wait_speak"], threads') >
                   CopiesIn([t EXCEPT !.pc = "wait_speak"], threads)
              /\ UNCHANGED pending_restart_listening
         /\ (t.kind = "process" /\ t.pc = "wait_speak"
               /\ HAS_GTTS /\ last_recognized_text # Empty) =>
              /\ CopiesIn(SpeakThread(TRUE), threads') >
                   CopiesIn(SpeakThread(TRUE), threads)
              /\ UNCHANGED pending_restart_listening
         /\ (t.kind = "speak" /\ t.restart /\ RestartRequested) =>
              /\ t.pc \in {"wait_restart", "synth"}
              /\ BagCardinality(threads') < BagCardinality(threads)
              /\ t.pc = "wait_restart" => UNCHANGED tts_playing]_vars
\* The echo of a recognised text was played and the restart requested after
\* it: the transcript is shown, nothing plays and no thread is left.
C23_RestartAfterEcho ==
  /\ current_mode = FREE_SPEECH /\ continuous_mode /\ HAS_GTTS
  /\ state = SHOWING
  /\ recognized_text \in Utterances(current_lang)
  /\ last_recognized_text = recognized_text
  /\ pending_restart_listening /\ ~tts_playing
  /\ threads = EmptyBag

\* C24: a recognition failure while continuous mode is on schedules a
\* restart: the failing step shows the status with the state SHOWING, starts
\* no synthesis and no further recognition, and leaves the thread waiting;
\* the thread's next step, after the wait, sets pending_restart_listening
\* and ends it.
C24_FailureSchedulesRestart ==
  [][\A t \in Live : Steps(t) =>
       /\ (InRecognition(t) /\ continuous_mode /\ last_recognized_text' = Empty) =>
            /\ state' = SHOWING
            /\ threads' = Moved(t, [t EXCEPT !.pc = "wait_restart"])
            /\ UNCHANGED <<pending_restart_listening, tts_playing>>
       /\ (t.kind = "process" /\ t.pc = "wait_restart") =>
            /\ pending_restart_listening'
            /\ threads' = Ended(t)
            /\ UNCHANGED <<state, recognized_text, tts_playing>>]_vars
\* The restart scheduled by a network error was requested: the status is
\* shown, the transcript is empty and the thread has ended.
C24_RestartAfterNetworkError ==
  /\ continuous_mode /\ pending_restart_listening
  /\ state = SHOWING
  /\ recognized_text = get_text(current_lang, "NETWORK_ERROR")
  /\ last_recognized_text = Empty
  /\ ~tts_playing /\ threads = EmptyBag

\* C25: a synthesis or playback error does not stall the continuous loop:
\* when the synthesis of speak() raises, the thread ends with tts_playing
\* false, and pending_restart_listening is set if the call was made with
\* restart_after and continuous mode is on, and left alone otherwise: the
\* values a playback that completes leaves once its thread has ended.
C25_SynthesisFailureKeepsLoop ==
  [][\A t \in Live : (t.kind = "speak" /\ Steps(t)) =>
       /\ (t.pc = "synth" /\ BagCardinality(threads') < BagCardinality(threads)) =>
            /\ ~tts_playing'
            /\ pending_restart_listening' =
                 (IF t.restart /\ continuous_mode THEN TRUE ELSE pending_restart_listening)
       /\ (t.pc = "playing") =>
            /\ ~tts_playing'
            /\ UNCHANGED pending_restart_listening
            /\ threads' = IF t.restart /\ continuous_mode
                          THEN Moved(t, [t EXCEPT !.pc = "wait_restart"]) ELSE Ended(t)
       /\ (t.pc = "wait_restart") =>
            /\ pending_restart_listening' /\ UNCHANGED tts_playing
            /\ threads' = Ended(t)]_vars
\* The synthesis thread of a translation has ended in continuous mode: no
\* playback is active and the restart is requested.
C25_LoopGoesOn ==
  /\ current_mode = TRANSLATION /\ continuous_mode /\ HAS_GTTS
  /\ state = SHOWING /\ IsTranslation(recognized_text)
  /\ pending_restart_listening /\ ~tts_playing
  /\ threads = EmptyBag

\* C26: tts_playing is true for the whole of every playback, at every call
\* site (echo, translation, word prompt, repeat, affirmation): in every
\* reachable state where a thread is playing, tts_playing is true.
C26_PlaybackFlagHeld == \A t \in Live : Playing(t) => tts_playing

\* The texts the recognizer returns for an utterance.
Heard == UNION {Utterances(lang) \cup SpellingUtterances(lang) : lang \in LANGUAGES}
\* C27: in every reachable state last_recognized_text is empty, or a text the
\* recognizer returned, or the translation of one: never a status phrase, a
\* placeholder or a success message.
C27_LastIsTranscript ==
  \/ last_recognized_text = Empty
  \/ last_recognized_text \in Heard
  \/ IsTranslation(last_recognized_text) /\ TranslatedFrom(last_recognized_text) \in Heard

\* C28: in a round, an utterance that matches no unfilled slot of the target
\* word leaves spelling_game as it is, shows the try-again phrase and sets the
\* state READY; one that fills a slot without completing the word appends
\* one entry, shows the correct-continue phrase and sets the state READY too.
C28_SpellingFeedback ==
  [][\A t \in Live :
       (/\ Steps(t) /\ InRecognition(t)
        /\ current_mode = SPELLING /\ spelling_game.target_word # NoWord
        /\ last_recognized_text' # Empty /\ ~MarkedComplete') =>
         LET m == SpellingMatch(last_recognized_text', current_lang,
                                spelling_game.target_word, spelling_game.user_spelling)
         IN /\ state' = READY
            /\ m.index = -1 =>
                 /\ spelling_game' = spelling_game
                 /\ recognized_text' = TryAgainText(current_lang)
            /\ m.index >= 0 =>
                 /\ Fills
                 /\ Len(spelling_game'.user_spelling) < Len(spelling_game.target_word)
                 /\ recognized_text' = ContinueText(current_lang)]_vars
\* After a first letter was accepted an utterance matched no unfilled slot:
\* the try-again phrase is shown and the one filled slot is kept.
C28_TryAgainKeepsSlots ==
  /\ current_mode = SPELLING /\ state = READY
  /\ recognized_text = TryAgainText(current_lang)
  /\ Len(spelling_game.user_spelling) = 1
  /\ threads = EmptyBag

\* C29: within a spelling round user_spelling only grows: in every step
\* either the target word stays and user_spelling stays or gets one more
\* entry at its end, or next_word draws a target word from the pool (round
\* start, Next button, auto-next after completion) and user_spelling is
\* reset to empty, whatever progress there was.
C29_SlotsGrowOrReset ==
  [][LET us == spelling_game.user_spelling
         filled == spelling_game'.user_spelling
     IN \/ /\ spelling_game'.target_word = spelling_game.target_word
           /\ \/ filled = us
              \/ Len(filled) = Len(us) + 1 /\ SubSeq(filled, 1, Len(us)) = us
        \/ /\ filled = <<>>
           /\ \E k \in 1..Len(spelling_game'.word_list) :
                spelling_game'.word_list[k] = spelling_game'.target_word
           /\ spelling_game'.current_word = spelling_game'.target_word
           /\ CopiesIn(SpeakWordThread, threads') > CopiesIn(SpeakWordThread, threads)]_vars
\* A new word is being prompted after a letter of the round before was
\* heard: the slots are empty again.
C29_NextAfterLetter ==
  /\ current_lang = "english" /\ spelling_game.difficulty = "easy"
  /\ spelling_game.user_spelling = <<>>
  /\ spelling_game.target_word = <<"A", "d">>
  /\ last_recognized_text = <<"d">>
  /\ state = SHOWING /\ recognized_text = ListenText(current_lang)
  /\ threads = SetToBag({SpeakWordThread})

\* The round is completed: every slot of the target word is filled.  A new
\* round is ready: a target word of the pool, no slot filled, the your-turn
\* phrase shown, the state READY and the prompt's thread ended.
RoundCompleted ==
  /\ spelling_game.target_word # NoWord
  /\ Len(spelling_game.user_spelling) = Len(spelling_game.target_word)
NewRoundReady ==
  /\ \E k \in 1..Len(spelling_game.word_list) :
       spelling_game.word_list[k] = spelling_game.target_word
  /\ spelling_game.user_spelling = <<>>
  /\ state = READY
  /\ recognized_text = YourTurnText(current_lang)
  /\ threads = EmptyBag
\* C30: after a spelling round is completed a new round eventually starts
\* (a target word drawn from the pool, no slot filled, ending in the state
\* READY), with continuous mode on or off and whether or not the synthesis of
\* the affirmation fails.
C30_NewRoundFollows == RoundCompleted ~> NewRoundReady
\* In continuous mode a new round is ready after a completed one: the
\* affirmation is still what last_recognized_text holds.
C30_NextRoundInContinuousMode ==
  /\ NewRoundReady /\ continuous_mode
  /\ last_recognized_text = AffirmationText(current_lang)

\* C31: the Repeat action synthesizes the target word again and leaves the
\* target word, user_spelling, the word pool and the session state as they
\* are, in the handler and in every step of its thread; with no target word
\* the handler changes nothing.
C31_RepeatKeepsRound ==
  [][/\ RepeatButton(OneAtATime) =>
          /\ UNCHANGED <<spelling_game, state, last_recognized_text>>
          /\ IF spelling_game.target_word = NoWord
             THEN UNCHANGED vars
             ELSE threads' = threads (+) SetToBag({RepeatWordThread})
     /\ \A t \in Live : (t.kind = "repeat_word" /\ Steps(t)) =>
          UNCHANGED <<spelling_game, state, last_recognized_text>>]_vars
\* The word is being repeated in a round with one slot filled.
C31_RepeatedMidRound ==
  /\ Len(spelling_game.user_spelling) = 1
  /\ Len(spelling_game.target_word) > 1
  /\ state = READY /\ recognized_text = ListenText(current_lang)
  /\ \E t \in Live : t.kind = "repeat_word" /\ t.pc = "playing"

\* C32: selecting a difficulty whose word pool for the active language is
\* empty changes nothing (difficulty, pool, target word, user_spelling and
\* state stay, no synthesis starts); with a non-empty pool the selection
\* stores the tier and the pool and starts the first round at once: a word
\* of the pool is the target, no slot is filled, the prompt's thread starts.
C32_DifficultySelection ==
  [][\A difficulty \in Difficulties : SelectDifficulty(difficulty, OneAtATime) =>
       IF words_data[current_lang][difficulty] = <<>>
       THEN UNCHANGED vars
       ELSE /\ spelling_game'.difficulty = difficulty
            /\ spelling_game'.word_list = words_data[current_lang][difficulty]
            /\ \E k \in 1..Len(spelling_game'.word_list) :
                 spelling_game'.target_word = spelling_game'.word_list[k]
            /\ spelling_game'.user_spelling = <<>>
            /\ state' = SHOWING /\ recognized_text' = ListenText(current_lang)
            /\ threads' = threads (+) SetToBag({SpeakWordThread})]_vars
\* The hard tier, the one non-empty tier besides easy, was selected: its
\* word is prompted as the first round.
C32_HardTierStarted ==
  /\ spelling_game.difficulty = "hard"
  /\ spelling_game.word_list = words_data[current_lang]["hard"]
  /\ spelling_game.target_word = <<"a", "d", "d", "a">>
  /\ spelling_game.user_spelling = <<>>
  /\ last_recognized_text = Empty
  /\ state = SHOWING /\ threads = SetToBag({SpeakWordThread})

\* C33 as stated: in English an utterance of two or more characters never
\* fills a slot: every utterance that fills one has a single character.
C33_OneCharacterUtterances ==
  [][(Fills /\ current_lang = "english" /\ ~MarkedComplete') =>
       Len(last_recognized_text') = 1]_vars
\* C33, amended: in English an utterance that has two or more characters
\* once the whitespace around it is stripped never fills a slot, whatever
\* letters of the target word it holds: in every state of a round the matcher
\* rejects each such utterance, and every utterance that fills a slot is a
\* single letter, alone or with whitespace around it.
C33_LongUtterancesRejected ==
  (current_lang = "english" /\ spelling_game.target_word # NoWord) =>
    \A u \in SpellingUtterances("english") :
      Len(Strip(u)) >= 2 =>
        SpellingMatch(u, "english", spelling_game.target_word,
                      spelling_game.user_spelling).index = -1
C33_SingleLettersOnly ==
  /\ []C33_LongUtterancesRejected
  /\ [][(Fills /\ current_lang = "english" /\ ~MarkedComplete') =>
          /\ Len(Strip(last_recognized_text')) = 1
          /\ IsAlpha(Strip(last_recognized_text')[1])]_vars
\* "ad" was uttered for the target word "dad": try again, no slot filled.
C33_TwoLettersRejected ==
  /\ current_lang = "english"
  /\ spelling_game.target_word = <<"d", "a", "d">>
  /\ spelling_game.user_spelling = <<>>
  /\ last_recognized_text = <<"a", "d">>
  /\ state = READY /\ recognized_text = TryAgainText(current_lang)

\* C34: the translation context is populated only in translation mode: in
\* every reachable state a non-empty translation_original implies that
\* current_mode is TRANSLATION, also when a translation that was started
\* before the back action completes after it.
C34_OriginalOnlyInTranslationMode ==
  translation_original # Empty => current_mode = TRANSLATION

\* C35: when the translator returns no usable result the translation-error
\* phrase is displayed, last_recognized_text is emptied, the state becomes
\* SHOWING and no synthesis is started; in continuous mode the thread waits
\* and then requests the restart, otherwise it ends.
C35_TranslationFailure ==
  [][\A t \in Live :
       (/\ Steps(t) /\ InTranslation(t)
        /\ recognized_text' # Translation(t.text, t.to)) =>
         /\ recognized_text' = get_text(current_lang, "TRANSLATION_ERROR")
         /\ last_recognized_text' = Empty
         /\ state' = SHOWING
         /\ UNCHANGED <<pending_restart_listening, tts_playing, translation_original>>
         /\ threads' = IF continuous_mode
                       THEN Ended(t) (+) SetToBag({[ProcessThread EXCEPT !.pc = "wait_restart"]})
                       ELSE Ended(t)]_vars
\* The restart scheduled by a failed translation was requested: the
\* translation-error phrase is shown over an empty transcript.
C35_RestartAfterFailedTranslation ==
  /\ current_mode = TRANSLATION /\ continuous_mode
  /\ state = SHOWING
  /\ recognized_text = get_text(current_lang, "TRANSLATION_ERROR")
  /\ last_recognized_text = Empty
  /\ pending_restart_listening /\ ~tts_playing
  /\ threads = EmptyBag

\* C36: the game mode is unset exactly when the session is in MODE_SELECT:
\* in every reachable state current_mode is None if and only if state is
\* MODE_SELECT, also when a capture or recognition that was started before
\* the back action finishes after it.
C36_ModeUnsetInModeSelect == (current_mode = NoMode) <=> (state = MODE_SELECT)

\* C37: while the session is in MODE_SELECT all session data are at their
\* defaults: recognized_text, last_recognized_text and translation_original
\* are empty, the spelling round has no target word and no filled slot,
\* continuous mode is off and no restart is requested; no background thread
\* still running at the back action writes them afterwards.
C37_DefaultsInModeSelect ==
  state = MODE_SELECT =>
    /\ recognized_text = Empty /\ last_recognized_text = Empty
    /\ translation_original = Empty
    /\ spelling_game.target_word = NoWord /\ spelling_game.user_spelling = <<>>
    /\ ~continuous_mode /\ ~pending_restart_listening

\* C38 as stated: in every reachable state of a round the entries of
\* user_spelling have pairwise distinct positions, each a valid index of the
\* target word, each entry's character is the target word's character at its
\* position, and there are no more entries than the word has letters.
C38_EntriesAreTargetLetters ==
  LET us == spelling_game.user_spelling
      tw == spelling_game.target_word
  IN tw # NoWord =>
       /\ \A j, k \in 1..Len(us) : j # k => us[j].position # us[k].position
       /\ \A k \in 1..Len(us) :
            /\ us[k].position \in 0..(Len(tw) - 1)
            /\ us[k].char = tw[us[k].position + 1]
       /\ Len(us) <= Len(tw)
\* C38, amended: the same, with each entry's character equal to the
\* lower-cased character of the target word at its position.
C38_EntriesAreLoweredTargetLetters ==
  LET us == spelling_game.user_spelling
      tw == spelling_game.target_word
  IN tw # NoWord =>
       /\ \A j, k \in 1..Len(us) : j # k => us[j].position # us[k].position
       /\ \A k \in 1..Len(us) :
            /\ us[k].position \in 0..(Len(tw) - 1)
            /\ us[k].char = LowerChar(tw[us[k].position + 1])
       /\ Len(us) <= Len(tw)
\* The three slots of a word with a repeated letter are filled, the middle
\* one first.
C38_AllSlotsOfRepeatedLetter ==
  /\ spelling_game.target_word = <<"alef", "bet", "alef">>
  /\ Len(spelling_game.user_spelling) = 3
  /\ spelling_game.user_spelling[1].position = 1
  /\ {spelling_game.user_spelling[k].position : k \in 1..3} = {0, 1, 2}

\* C39: the letter boxes of a round agree with user_spelling: for every
\* index i of the target word, box i is drawn as filled if and only if some
\* entry has position i, and it then shows that entry's character, in
\* whatever order the letters were spoken.
C39_BoxesShowFilledSlots ==
  LET us == spelling_game.user_spelling
  IN (current_mode = SPELLING /\ spelling_game.difficulty # NoDifficulty
      /\ spelling_game.target_word # NoWord) =>
       \A i \in DOMAIN letter_boxes :
         /\ letter_boxes[i].filled <=> (i \in FilledPositions(us))
         /\ \A k \in 1..Len(us) :
              us[k].position = i => letter_boxes[i].display_char = us[k].char

\* The failure phrases of a language.
FailureStatus(lang) ==
  {get_text(lang, key) :
     key \in {"NOT_UNDERSTOOD", "NETWORK_ERROR", "ERROR", "TRANSLATION_ERROR"}}
\* C40: whenever the displayed text is a failure status (not understood,
\* network error, error, translation error), the not-understood status after
\* a capture without frames included, last_recognized_text is empty, so the
\* speaker button never speaks the transcript of an earlier turn again.
C40_NoReplayAfterFailure ==
  (state = SHOWING /\ display_text \in FailureStatus(current_lang)) =>
    last_recognized_text = Empty

====
